---- MODULE Spec2Model ----
(***************************************************************************)
(* SyncEngine (engine.go): a per-group item store, the dispatch loop, the  *)
(* retry loop, Add/Ack, and the task each loop submits to the executor.    *)
(***************************************************************************)
EXTENDS Integers, FiniteSets, Sequences, Bags, TLC

\* ---------------------------------------------------------------- bounds
Groups == {"g1", "g2"}
Keys == {"k1", "k2"}
Threads == {"t1", "t2"}

\* ticks of the wall clock the model lets pass
MaxClock == 1
\* calls of Add and Ack the callers make in one run
MaxOps == 3
\* tasks submitted and not yet finished
MaxTasks == 2

\* time.Now().UnixNano() when the engine is built: above every configured duration
Epoch == 10

BatchSizes == {1, 2}
MaxRetries == {0, 1, 2}
FlushAfters == {0}
RetryAfters == {1}

\* Config (engine.go 24-34). Executor "nil" is replaced by the default executor,
\* "async" is a custom pool that runs the task on a goroutine of its own, "sync" a
\* custom executor that runs the task inside Submit. Logger is "fn" (set) or "nil"; OnDispatch is "fn" (a callback that
\* returns, having called Ack or not), "returns" (one that only returns),
\* "panics" (one that panics) or "nil".
Configs(bs, mr, fa, ra, ex, lg, od) ==
  [BatchSize : bs, MaxRetry : mr, FlushAfter : fa, RetryAfter : ra,
   Executor : ex, Logger : lg, OnDispatch : od]

\* the group each caller adds to when every caller has a group of its own
HomeGroup(t) == IF t = "t1" THEN "g1" ELSE "g2"

\* the batch and retry policy in full, tasks on a pool
PolicyConfigs == Configs(BatchSizes, MaxRetries, FlushAfters, RetryAfters, {"async"}, {"fn"}, {"fn"})

\* every executor, with and without Logger and OnDispatch, under one policy
TaskConfigs == Configs({1}, {2}, {0}, {1}, {"nil", "async", "sync"}, {"fn", "nil"}, {"fn", "panics", "nil"})

\* concurrent callers: one policy, a callback that only returns
AddConfigs == Configs({1}, {1}, {0}, {1}, {"async"}, {"fn"}, {"returns"})

\* one Add per group, then Start: with and without a Logger, tasks run on a
\* pool or inside Submit, by a callback that only returns
LiveConfigs == Configs(BatchSizes, {1}, {0}, {1}, {"async", "sync"}, {"fn", "nil"}, {"returns"})

\* Stop: one policy, tasks on a pool or run inside Submit, a callback that
\* returns, having called Ack or not
StopConfigs == Configs({1}, {1}, {0}, {1}, {"async", "sync"}, {"fn"}, {"fn"})

\* calls of Add and Ack the callers make in a run with Stop
StopOps == 2

\* items added while the loops run and never acknowledged: with and without a
\* Logger, tasks on a pool or run inside Submit, a callback that only returns
FlowConfigs == Configs(BatchSizes, {0, 1}, {0}, {1}, {"async", "sync"}, {"fn", "nil"}, {"returns"})

\* calls of Add the callers make in such a run
FlowOps == 2

VARIABLES
  cfg,      \* Config
  started,  \* Start() has launched the two loops
  stopped,  \* close(e.stop) has happened
  crashed,  \* a panic left a goroutine unrecovered: the process is gone
  clock,    \* time.Now().UnixNano()
  cache,    \* sync.Map: group -> index of its *itemGroup in recs[group] (0: no entry)
  recs,     \* group -> the itemGroup records ever stored under it
  pcT,      \* where each caller thread is
  argT,     \* the call a thread is in
  opsLeft,  \* calls of Add/Ack still to be made
  dPc, dNow, dTodo,   \* dispatchLoop: position, now of the tick, groups Range has yet to visit
  rPc, rNow, rTodo,   \* retryLoop: the same
  tasks     \* bag of tasks handed to Executor.Submit and not finished

vars == <<cfg, started, stopped, crashed, clock, cache, recs, pcT, argT, opsLeft,
          dPc, dNow, dTodo, rPc, rNow, rTodo, tasks>>

\* ---------------------------------------------------------------- data
Min(a, b) == IF a <= b THEN a ELSE b

EmptyMap == [k \in {} |-> 0]

\* &itemGroup{items: make(map), attempts: make(map)}; mu unlocked, lastSent 0
NewItemGroup == [mu |-> "free", items |-> EmptyMap, attempts |-> EmptyMap, lastSent |-> 0]

NoArg == [op |-> "none"]

\* the item a caller thread adds under key k: each caller builds its own values
ItemOf(t, k) == <<k, t>>

\* the record the store holds for group g (only where cache[g] # 0)
Ig(g) == recs[g][cache[g]]

\* ig.attempts[key] of a Go map: 0 for a missing key
Att(ig, k) == IF k \in DOMAIN ig.attempts THEN ig.attempts[k] ELSE 0

\* the store with record ref = <<g, i>> replaced by ig
SetRec(ref, ig) == [recs EXCEPT ![ref[1]][ref[2]] = ig]

\* time.Now().UnixNano()
Now == clock

\* DefaultExecutor.Submit: one new goroutine per submitted task
DefaultExecutor == "async"

\* lines 106-109 (164-167): executor := e.cfg.Executor; if executor == nil {
\* executor = &DefaultExecutor{} }
Executor == IF cfg.Executor = "nil" THEN DefaultExecutor ELSE cfg.Executor

\* whether executor.Submit runs the task before it returns
RunsInline == Executor = "sync"

\* the engine as NewEngine leaves it, configured from cfgs, with the callers in on
\* and ops calls of Add and Ack to come
InitWith(cfgs, on, ops) ==
  /\ cfg \in cfgs
  /\ started = FALSE /\ stopped = FALSE /\ crashed = FALSE
  /\ clock = Epoch
  /\ cache = [g \in Groups |-> 0]
  /\ recs = [g \in Groups |-> <<>>]
  /\ pcT = [t \in Threads |-> IF t \in on THEN "idle" ELSE "halted"]
  /\ argT = [t \in Threads |-> NoArg]
  /\ opsLeft = ops
  /\ dPc = "off" /\ dNow = 0 /\ dTodo = {}
  /\ rPc = "off" /\ rNow = 0 /\ rTodo = {}
  /\ tasks = EmptyBag

Init == InitWith(PolicyConfigs, {"t1"}, MaxOps)

\* ---------------------------------------------------------------- Start, Stop, time
\* Start: go e.dispatchLoop(); go e.retryLoop()
Start ==
  /\ ~crashed /\ ~started
  /\ started' = TRUE
  /\ dPc' = "idle" /\ rPc' = "idle"
  /\ UNCHANGED <<cfg, stopped, crashed, clock, cache, recs, pcT, argT, opsLeft,
                 dNow, dTodo, rNow, rTodo, tasks>>

\* Stop: close(e.stop), called once, before or after Start
Stop ==
  /\ ~crashed /\ ~stopped
  /\ stopped' = TRUE
  /\ UNCHANGED <<cfg, started, crashed, clock, cache, recs, pcT, argT, opsLeft,
                 dPc, dNow, dTodo, rPc, rNow, rTodo, tasks>>

\* the wall clock moves on
Advance ==
  /\ ~crashed /\ clock < Epoch + MaxClock
  /\ clock' = clock + 1
  /\ UNCHANGED <<cfg, started, stopped, crashed, cache, recs, pcT, argT, opsLeft,
                 dPc, dNow, dTodo, rPc, rNow, rTodo, tasks>>

\* ---------------------------------------------------------------- Add
\* LoadOrStore as a Store: the new record replaces the one the group had
StoreAlways(g) ==
  <<[cache EXCEPT ![g] = Len(recs[g]) + 1],
    [recs EXCEPT ![g] = Append(@, NewItemGroup)],
    <<g, Len(recs[g]) + 1>>>>

\* sync.Map.LoadOrStore(g, new): the stored record if there is one, else new is
\* stored; one atomic step. The result: <<cache', recs', ref of the record returned>>
LoadOrStore(g) ==
  IF cache[g] # 0
    THEN <<cache, recs, <<g, cache[g]>>>>
    ELSE <<[cache EXCEPT ![g] = Len(recs[g]) + 1],
           [recs EXCEPT ![g] = Append(@, NewItemGroup)],
           <<g, Len(recs[g]) + 1>>>>

\* a group stored while a loop's Range is under way may or may not be visited by
\* it: the todo sets Range may go on with
RangeSees(todo, pc, g, fresh) ==
  IF fresh /\ pc = "scan" THEN {todo, todo \cup {g}} ELSE {todo}

\* PutItem that takes the item for a new one: its attempts are forgotten
PutItemAsNew(ig, k, item) ==
  [ig EXCEPT !.items = [x \in DOMAIN ig.items \cup {k} |-> IF x = k THEN item ELSE ig.items[x]],
             !.attempts = [x \in DOMAIN ig.attempts \ {k} |-> ig.attempts[x]]]

\* ig.items[item.Key()] = item
PutItem(ig, k, item) ==
  [ig EXCEPT !.items = [x \in DOMAIN ig.items \cup {k} |-> IF x = k THEN item ELSE ig.items[x]]]

\* Add, lines 53-63, as one step: LoadOrStore, then the write under the group's
\* lock (a caller that finds the lock held waits for it)
Add(t, g, k) ==
  /\ ~crashed /\ pcT[t] = "idle" /\ opsLeft > 0
  /\ LET r == LoadOrStore(g)
         ref == r[3]
         ig == r[2][ref[1]][ref[2]]
         fresh == cache[g] = 0
     IN /\ ig.mu = "free"
        /\ cache' = r[1]
        /\ recs' = [r[2] EXCEPT ![ref[1]][ref[2]] = PutItem(ig, k, ItemOf(t, k))]
        /\ dTodo' \in RangeSees(dTodo, dPc, g, fresh)
        /\ rTodo' \in RangeSees(rTodo, rPc, g, fresh)
  /\ opsLeft' = opsLeft - 1
  /\ UNCHANGED <<cfg, started, stopped, crashed, clock, pcT, argT, dPc, dNow, rPc, rNow, tasks>>

\* Add taken apart for concurrent callers. Lines 54-58:
\* raw, _ := e.cache.LoadOrStore(item.Group(), &itemGroup{...}); ig := raw.(*itemGroup)
AddLoadOrStore(t, g, k) ==
  /\ ~crashed /\ pcT[t] = "idle" /\ opsLeft > 0
  /\ LET r == LoadOrStore(g)
         fresh == cache[g] = 0
     IN /\ cache' = r[1]
        /\ recs' = r[2]
        /\ argT' = [argT EXCEPT ![t] = [op |-> "add", ig |-> r[3], key |-> k, item |-> ItemOf(t, k)]]
        /\ dTodo' \in RangeSees(dTodo, dPc, g, fresh)
        /\ rTodo' \in RangeSees(rTodo, rPc, g, fresh)
  /\ pcT' = [pcT EXCEPT ![t] = "addLock"]
  /\ opsLeft' = opsLeft - 1
  /\ UNCHANGED <<cfg, started, stopped, crashed, clock, dPc, dNow, rPc, rNow, tasks>>

\* lines 60-62: ig.mu.Lock(); defer ig.mu.Unlock(); ig.items[item.Key()] = item
AddLocked(t) ==
  /\ ~crashed /\ pcT[t] = "addLock"
  /\ LET ref == argT[t].ig
         ig == recs[ref[1]][ref[2]]
     IN /\ ig.mu = "free"
        /\ recs' = SetRec(ref, PutItem(ig, argT[t].key, argT[t].item))
  /\ pcT' = [pcT EXCEPT ![t] = "idle"]
  /\ argT' = [argT EXCEPT ![t] = NoArg]
  /\ UNCHANGED <<cfg, started, stopped, crashed, clock, cache, opsLeft,
                 dPc, dNow, dTodo, rPc, rNow, rTodo, tasks>>

\* ---------------------------------------------------------------- Ack
\* DeleteKeys that forgets delete(ig.items, k)
DeleteAttemptsOnly(ig, K) ==
  [ig EXCEPT !.attempts = [x \in DOMAIN ig.attempts \ K |-> ig.attempts[x]]]

\* DeleteKeys that forgets delete(ig.attempts, k)
DeleteItemsOnly(ig, K) ==
  [ig EXCEPT !.items = [x \in DOMAIN ig.items \ K |-> ig.items[x]]]

\* for _, k := range keys { delete(ig.items, k); delete(ig.attempts, k) }
DeleteKeys(ig, K) ==
  [ig EXCEPT !.items = [x \in DOMAIN ig.items \ K |-> ig.items[x]],
             !.attempts = [x \in DOMAIN ig.attempts \ K |-> ig.attempts[x]]]

\* Ack with LoadOrStore in place of Load: an unknown group gets a record
AckStoring(t, g, K) ==
  /\ ~crashed /\ pcT[t] = "idle" /\ opsLeft > 0
  /\ LET r == LoadOrStore(g)
         ig == r[2][g][r[1][g]]
     IN /\ ig.mu = "free"
        /\ cache' = r[1]
        /\ recs' = [r[2] EXCEPT ![g][r[1][g]] = DeleteKeys(ig, K)]
  /\ opsLeft' = opsLeft - 1
  /\ UNCHANGED <<cfg, started, stopped, crashed, clock, pcT, argT,
                 dPc, dNow, dTodo, rPc, rNow, rTodo, tasks>>

\* Ack, lines 65-78: no record for the group: return; else the deletes under
\* the group's lock
Ack(t, g, K) ==
  /\ ~crashed /\ pcT[t] = "idle" /\ opsLeft > 0
  /\ IF cache[g] = 0
       THEN UNCHANGED recs
       ELSE /\ Ig(g).mu = "free"
            /\ recs' = SetRec(<<g, cache[g]>>, DeleteKeys(Ig(g), K))
  /\ opsLeft' = opsLeft - 1
  /\ UNCHANGED <<cfg, started, stopped, crashed, clock, cache, pcT, argT,
                 dPc, dNow, dTodo, rPc, rNow, rTodo, tasks>>

\* ---------------------------------------------------------------- the loops' shared parts
\* the task a loop hands to Submit: the closure over the group and the batch
\* (the batch as the keys of its items); runner is "pool" for a task on another
\* goroutine, or the loop that runs it inside Submit
Task(kind, g, batch) ==
  [kind |-> kind, group |-> g, batch |-> batch,
   runner |-> IF RunsInline THEN kind ELSE "pool", pc |-> "submitted", ack |-> {}]

\* BumpAttempts that counts a batch twice
BumpAttemptsTwice(ig, batch) ==
  [ig EXCEPT !.attempts = [x \in DOMAIN ig.attempts \cup batch |->
                             IF x \in batch THEN Att(ig, x) + 2 ELSE ig.attempts[x]]]

\* for _, b := range batch { ig.attempts[b.Key()]++ }
BumpAttempts(ig, batch) ==
  [ig EXCEPT !.attempts = [x \in DOMAIN ig.attempts \cup batch |->
                             IF x \in batch THEN Att(ig, x) + 1 ELSE ig.attempts[x]]]

\* executor.Submit(task), then ig.mu.Unlock(): an executor that runs the task
\* inside Submit keeps the loop in Submit, the lock held, until the task ends
Submitted(ig, loop) == IF RunsInline THEN [ig EXCEPT !.mu = loop] ELSE ig

\* the model keeps at most MaxTasks unfinished tasks
PoolHasRoom == BagCardinality(tasks) < MaxTasks

\* Range moves on to the next group, or the tick is over
TodoAfter(todo, g) == todo \ {g}
PcAfter(todo, g) == IF TodoAfter(todo, g) = {} THEN "idle" ELSE "scan"
NowAfter(todo, g, now) == IF TodoAfter(todo, g) = {} THEN 0 ELSE now

\* ---------------------------------------------------------------- dispatchLoop
\* case <-ticker.C: now := time.Now().UnixNano(); e.cache.Range(...)
DTick ==
  /\ ~crashed /\ dPc = "idle"
  /\ LET todo == {g \in Groups : cache[g] # 0}
     IN /\ dTodo' = todo
        /\ dPc' = IF todo = {} THEN "idle" ELSE "scan"
        /\ dNow' = IF todo = {} THEN 0 ELSE Now
  /\ UNCHANGED <<cfg, started, stopped, crashed, clock, cache, recs, pcT, argT, opsLeft,
                 rPc, rNow, rTodo, tasks>>

\* case <-e.stop: return
DExit ==
  /\ ~crashed /\ dPc = "idle" /\ stopped
  /\ dPc' = "exited"
  /\ UNCHANGED <<cfg, started, stopped, crashed, clock, cache, recs, pcT, argT, opsLeft,
                 dNow, dTodo, rPc, rNow, rTodo, tasks>>

\* lines 90-95: the keys of the items whose attempts[key] == 0
Unsent(ig) == {k \in DOMAIN ig.items : Att(ig, k) = 0}

\* ShouldFlush without the time condition
ShouldFlushOnSize(ig, now) == Cardinality(Unsent(ig)) >= cfg.BatchSize

\* line 96: len(unsent) >= BatchSize || now-ig.lastSent > FlushAfter
ShouldFlush(ig, now) ==
  \/ Cardinality(Unsent(ig)) >= cfg.BatchSize
  \/ now - ig.lastSent > cfg.FlushAfter

\* Batches without the cut at BatchSize: every unsent item goes out
BatchesUncut(unsent) == {unsent}

\* line 99: unsent[:min(BatchSize, len(unsent))]; unsent is in the map's iteration
\* order, which Go leaves open, so any min(..) of the unsent keys
Batches(unsent) ==
  {b \in SUBSET unsent : Cardinality(b) = Min(cfg.BatchSize, Cardinality(unsent))}

\* Dispatched without the count: the attempts are left for the task to raise
DispatchedUncounted(ig, batch) == [ig EXCEPT !.lastSent = Now]

\* lines 101-104: the attempts of the batch raised, lastSent = time.Now()
Dispatched(ig, batch) == [BumpAttempts(ig, batch) EXCEPT !.lastSent = Now]

\* one call of Range's function by the dispatch loop, lines 87-122
DVisit(g) ==
  /\ ~crashed /\ dPc = "scan" /\ g \in dTodo
  /\ LET ig == Ig(g)
     IN /\ ig.mu = "free"
        /\ IF Unsent(ig) # {} /\ ShouldFlush(ig, dNow)
             THEN \E batch \in Batches(Unsent(ig)) :
                    /\ PoolHasRoom
                    /\ recs' = SetRec(<<g, cache[g]>>, Submitted(Dispatched(ig, batch), "dispatch"))
                    /\ tasks' = tasks (+) SetToBag({Task("dispatch", g, batch)})
                    /\ IF RunsInline
                         THEN dPc' = "inline" /\ UNCHANGED <<dTodo, dNow>>
                         ELSE /\ dTodo' = TodoAfter(dTodo, g)
                              /\ dPc' = PcAfter(dTodo, g)
                              /\ dNow' = NowAfter(dTodo, g, dNow)
             ELSE /\ dTodo' = TodoAfter(dTodo, g)
                  /\ dPc' = PcAfter(dTodo, g)
                  /\ dNow' = NowAfter(dTodo, g, dNow)
                  /\ UNCHANGED <<recs, tasks>>
  /\ UNCHANGED <<cfg, started, stopped, crashed, clock, cache, pcT, argT, opsLeft,
                 rPc, rNow, rTodo>>

\* ---------------------------------------------------------------- retryLoop
RTick ==
  /\ ~crashed /\ rPc = "idle"
  /\ LET todo == {g \in Groups : cache[g] # 0}
     IN /\ rTodo' = todo
        /\ rPc' = IF todo = {} THEN "idle" ELSE "scan"
        /\ rNow' = IF todo = {} THEN 0 ELSE Now
  /\ UNCHANGED <<cfg, started, stopped, crashed, clock, cache, recs, pcT, argT, opsLeft,
                 dPc, dNow, dTodo, tasks>>

RExit ==
  /\ ~crashed /\ rPc = "idle" /\ stopped
  /\ rPc' = "exited"
  /\ UNCHANGED <<cfg, started, stopped, crashed, clock, cache, recs, pcT, argT, opsLeft,
                 dPc, dNow, dTodo, rNow, rTodo, tasks>>

\* RetrySkip without the wait for RetryAfter
RetrySkipNoWait(ig, now) == DOMAIN ig.items = {} \/ ig.lastSent = 0

\* lines 141-152: the three early returns
RetrySkip(ig, now) ==
  \/ DOMAIN ig.items = {}
  \/ ig.lastSent = 0
  \/ now - ig.lastSent < cfg.RetryAfter

\* Retryable with <= for <: an item at the ceiling is retried once more
RetryableUpTo(ig) == {k \in DOMAIN ig.items : Att(ig, k) <= cfg.MaxRetry}

\* Retryable cut at BatchSize as the dispatch loop's batch is
RetryableCapped(ig) ==
  LET all == {k \in DOMAIN ig.items : Att(ig, k) < cfg.MaxRetry}
  IN CHOOSE b \in SUBSET all : Cardinality(b) = Min(cfg.BatchSize, Cardinality(all))

\* Retryable that leaves the items never dispatched to the dispatch loop
RetryableSent(ig) == {k \in DOMAIN ig.items : Att(ig, k) >= 1 /\ Att(ig, k) < cfg.MaxRetry}

\* lines 154-160: the keys of the items whose attempts[key] < MaxRetry
Retryable(ig) == {k \in DOMAIN ig.items : Att(ig, k) < cfg.MaxRetry}

\* Retried that drops the items whose retries are used up
RetriedDropping(ig, batch, now) ==
  LET kept == {k \in DOMAIN ig.items : k \in batch \/ Att(ig, k) < cfg.MaxRetry}
      r == [BumpAttempts(ig, batch) EXCEPT !.lastSent = now]
  IN [r EXCEPT !.items = [x \in kept |-> ig.items[x]],
               !.attempts = [x \in DOMAIN r.attempts \cap kept |-> r.attempts[x]]]

\* lines 155-162: their attempts raised, lastSent = now of the tick
Retried(ig, batch, now) == [BumpAttempts(ig, batch) EXCEPT !.lastSent = now]

\* one call of Range's function by the retry loop, lines 137-180
RVisit(g) ==
  /\ ~crashed /\ rPc = "scan" /\ g \in rTodo
  /\ LET ig == Ig(g)
         batch == Retryable(ig)
     IN /\ ig.mu = "free"
        /\ IF ~RetrySkip(ig, rNow) /\ batch # {}
             THEN /\ PoolHasRoom
                  /\ recs' = SetRec(<<g, cache[g]>>, Submitted(Retried(ig, batch, rNow), "retry"))
                  /\ tasks' = tasks (+) SetToBag({Task("retry", g, batch)})
                  /\ IF RunsInline
                       THEN rPc' = "inline" /\ UNCHANGED <<rTodo, rNow>>
                       ELSE /\ rTodo' = TodoAfter(rTodo, g)
                            /\ rPc' = PcAfter(rTodo, g)
                            /\ rNow' = NowAfter(rTodo, g, rNow)
             ELSE /\ rTodo' = TodoAfter(rTodo, g)
                  /\ rPc' = PcAfter(rTodo, g)
                  /\ rNow' = NowAfter(rTodo, g, rNow)
                  /\ UNCHANGED <<recs, tasks>>
  /\ UNCHANGED <<cfg, started, stopped, crashed, clock, cache, pcT, argT, opsLeft,
                 dPc, dNow, dTodo>>

\* ---------------------------------------------------------------- the submitted task
\* calling a nil func value panics: e.cfg.Logger(...) at lines 114, 117, 172, 175
LoggerPanics == cfg.Logger = "nil"

\* lines 117-118 (175-176): e.cfg.Logger("start ..."), then e.cfg.OnDispatch(group,
\* batch). The ways the body can go: panic says whether it panicked, called whether
\* OnDispatch was entered, acks whether the callback called Ack(group, keys) and
\* with which keys of its batch (example_test.go 36-46). A nil OnDispatch panics
\* when called; "panics" is a callback that panics.
BodyOutcomes(task) ==
  IF LoggerPanics
    THEN {[panic |-> TRUE, called |-> FALSE, acks |-> FALSE, keys |-> {}]}
    ELSE IF cfg.OnDispatch = "nil"
      THEN {[panic |-> TRUE, called |-> FALSE, acks |-> FALSE, keys |-> {}]}
      ELSE IF cfg.OnDispatch = "panics"
        THEN {[panic |-> TRUE, called |-> TRUE, acks |-> FALSE, keys |-> {}]}
        ELSE {[panic |-> FALSE, called |-> TRUE, acks |-> FALSE, keys |-> {}]}
             \cup {[panic |-> FALSE, called |-> TRUE, acks |-> TRUE, keys |-> K] :
                     K \in IF cfg.OnDispatch = "fn" THEN SUBSET task.batch ELSE {}}

\* Deferred without the recover: a panic of the body leaves the task
DeferredNoRecover(out) == IF out.panic THEN "crashed" ELSE "done"

\* lines 112-116 (170-174): defer func() { if r := recover(); r != nil {
\* e.cfg.Logger("[WARN] ...") } }(): a panic of the body is recovered and logged,
\* and the task ends; the log call on a nil Logger panics out of the task, the
\* goroutine dies and the process with it
Deferred(out) == IF out.panic /\ LoggerPanics THEN "crashed" ELSE "done"

\* the task has ended: a task run inside Submit lets Submit return, the loop
\* unlocks the group (lines 121, 179) and Range moves on
LoopResumes(task, rs) ==
  /\ tasks' = tasks (-) SetToBag({task})
  /\ IF task.runner = "pool"
       THEN /\ recs' = rs
            /\ UNCHANGED <<dPc, dNow, dTodo, rPc, rNow, rTodo>>
       ELSE /\ recs' = [rs EXCEPT ![task.group][cache[task.group]].mu = "free"]
            /\ IF task.runner = "dispatch"
                 THEN /\ dTodo' = TodoAfter(dTodo, task.group)
                      /\ dPc' = PcAfter(dTodo, task.group)
                      /\ dNow' = NowAfter(dTodo, task.group, dNow)
                      /\ UNCHANGED <<rPc, rNow, rTodo>>
                 ELSE /\ rTodo' = TodoAfter(rTodo, task.group)
                      /\ rPc' = PcAfter(rTodo, task.group)
                      /\ rNow' = NowAfter(rTodo, task.group, rNow)
                      /\ UNCHANGED <<dPc, dNow, dTodo>>

\* the task of lines 111-119 (169-177), run by the executor. A callback that
\* calls Ack (lines 65-78) takes the group's lock, deletes and returns; when the
\* lock is held it waits in ig.mu.Lock(), and the only holder there can be is
\* the loop that runs this very task inside Submit.
RunTask(task) ==
  /\ ~crashed /\ BagIn(task, tasks) /\ task.pc = "submitted"
  /\ \E out \in BodyOutcomes(task) :
       IF Deferred(out) = "crashed"
         THEN /\ crashed' = TRUE
              /\ UNCHANGED <<recs, tasks, dPc, dNow, dTodo, rPc, rNow, rTodo>>
         ELSE /\ UNCHANGED crashed
              /\ IF out.acks /\ Ig(task.group).mu # "free"
                   THEN /\ tasks' = (tasks (-) SetToBag({task}))
                                      (+) SetToBag({[task EXCEPT !.pc = "lockWait", !.ack = out.keys]})
                        /\ UNCHANGED <<recs, dPc, dNow, dTodo, rPc, rNow, rTodo>>
                   ELSE LoopResumes(task, SetRec(<<task.group, cache[task.group]>>,
                                                 DeleteKeys(Ig(task.group), out.keys)))
  /\ UNCHANGED <<cfg, started, stopped, clock, cache, pcT, argT, opsLeft>>

\* ---------------------------------------------------------------- the system
Next ==
  \/ Start
  \/ Advance
  \/ \E t \in Threads, g \in Groups, k \in Keys : Add(t, g, k)
  \/ \E t \in Threads, g \in Groups, K \in SUBSET Keys \ {{}} : Ack(t, g, K)
  \/ DTick
  \/ \E g \in Groups : DVisit(g)
  \/ RTick
  \/ \E g \in Groups : RVisit(g)
  \/ \E task \in BagToSet(tasks) : RunTask(task)

Spec == Init /\ [][Next]_vars

\* every executor, with and without Logger and OnDispatch
InitTask == InitWith(TaskConfigs, {"t1"}, MaxOps)
SpecTask == InitTask /\ [][Next]_vars


\* concurrent callers: Add in its two steps, by two callers at once
InitAdd == InitWith(AddConfigs, Threads, MaxOps)
NextAdd ==
  \/ Start
  \/ Advance
  \/ \E t \in Threads, g \in Groups, k \in Keys : AddLoadOrStore(t, g, k)
  \/ \E t \in Threads : AddLocked(t)
  \/ \E t \in Threads, g \in Groups, K \in SUBSET Keys \ {{}} : Ack(t, g, K)
  \/ DTick
  \/ \E g \in Groups : DVisit(g)
  \/ RTick
  \/ \E g \in Groups : RVisit(g)
  \/ \E task \in BagToSet(tasks) : RunTask(task)
SpecAdd == InitAdd /\ [][NextAdd]_vars

\* every caller adds one item to its own group, concurrently; Start follows when
\* all have returned; nobody calls Ack
InitLive == InitWith(LiveConfigs, Threads, Cardinality(Threads))
LiveAdd(t) == \E k \in Keys : cache[HomeGroup(t)] = 0 /\ AddLoadOrStore(t, HomeGroup(t), k)
LiveStart ==
  /\ \A t \in Threads : pcT[t] = "idle" /\ cache[HomeGroup(t)] # 0
  /\ Start
NextLive ==
  \/ \E t \in Threads : LiveAdd(t)
  \/ \E t \in Threads : AddLocked(t)
  \/ LiveStart
  \/ Advance
  \/ DTick
  \/ \E g \in Groups : DVisit(g)
  \/ RTick
  \/ \E g \in Groups : RVisit(g)
  \/ \E task \in BagToSet(tasks) : RunTask(task)
\* the callers' goroutines, the two loops and the executor's goroutines are all
\* scheduled, the tickers keep firing, and a free mutex is taken by who waits for it
SpecLive ==
  /\ InitLive /\ [][NextLive]_vars
  /\ WF_vars(\E t \in Threads : LiveAdd(t))
  /\ WF_vars(\E t \in Threads : AddLocked(t))
  /\ WF_vars(LiveStart)
  /\ WF_vars(DTick) /\ WF_vars(\E g \in Groups : DVisit(g))
  /\ WF_vars(RTick) /\ WF_vars(\E g \in Groups : RVisit(g))
  /\ WF_vars(\E task \in BagToSet(tasks) : RunTask(task))


\* Start, Stop, and everything else around them. A loop that is idle after Stop
\* has a closed e.stop to receive from and maybe a tick: select takes either, at
\* random, so the exit is taken sooner or later (strong fairness); a loop inside
\* a tick goes on with it, and the executor runs what it was given.
InitStop == InitWith(StopConfigs, {"t1"}, StopOps)
NextStop ==
  \/ Start
  \/ Stop
  \/ Advance
  \/ \E t \in Threads, g \in Groups, k \in Keys : Add(t, g, k)
  \/ \E t \in Threads, g \in Groups, K \in SUBSET Keys \ {{}} : Ack(t, g, K)
  \/ DTick
  \/ \E g \in Groups : DVisit(g)
  \/ DExit
  \/ RTick
  \/ \E g \in Groups : RVisit(g)
  \/ RExit
  \/ \E task \in BagToSet(tasks) : RunTask(task)
SpecStop ==
  /\ InitStop /\ [][NextStop]_vars
  /\ WF_vars(\E g \in Groups : DVisit(g)) /\ SF_vars(DExit)
  /\ WF_vars(\E g \in Groups : RVisit(g)) /\ SF_vars(RExit)
  /\ WF_vars(\E task \in BagToSet(tasks) : RunTask(task))


\* the engine running, items added at any time and never acknowledged. The
\* callers add before the clock's last tick, so that time goes on after the
\* last Add; the tickers fire, the loops and the executor's tasks are scheduled.
InitFlow == InitWith(FlowConfigs, {"t1"}, FlowOps)
FlowAdd(t, g, k) == clock < Epoch + MaxClock /\ Add(t, g, k)
NextFlow ==
  \/ Start
  \/ Advance
  \/ \E t \in Threads, g \in Groups, k \in Keys : FlowAdd(t, g, k)
  \/ DTick
  \/ \E g \in Groups : DVisit(g)
  \/ RTick
  \/ \E g \in Groups : RVisit(g)
  \/ \E task \in BagToSet(tasks) : RunTask(task)
SpecFlow ==
  /\ InitFlow /\ [][NextFlow]_vars
  /\ WF_vars(Start) /\ WF_vars(Advance)
  /\ WF_vars(DTick) /\ WF_vars(\E g \in Groups : DVisit(g))
  /\ WF_vars(RTick) /\ WF_vars(\E g \in Groups : RVisit(g))
  /\ WF_vars(\E task \in BagToSet(tasks) : RunTask(task))

\* ---------------------------------------------------------------- what a step did
\* the keys stored in group g, and the attempt count of key k there
ItemsOf(g) == IF cache[g] = 0 THEN {} ELSE DOMAIN Ig(g).items
AttemptsOf(g, k) == IF cache[g] = 0 THEN 0 ELSE Att(Ig(g), k)
LastSentOf(g) == IF cache[g] = 0 THEN 0 ELSE Ig(g).lastSent
UnsentOf(g) == {k \in ItemsOf(g) : AttemptsOf(g, k) = 0}
MaxOf(a, b) == IF a >= b THEN a ELSE b

\* the tasks this step has handed to Submit, and the batches among them that
\* loop kind has cut for group g
NewTasks ==
  {task \in BagToSet(tasks') : task.pc = "submitted" /\ CopiesIn(task, tasks') > CopiesIn(task, tasks)}
CutBy(kind, g) == {task.batch : task \in {x \in NewTasks : x.kind = kind /\ x.group = g}}

\* this step is the dispatch (retry) loop's visit of group g
DispatchVisits(g) ==
  /\ dPc = "scan" /\ g \in dTodo /\ Ig(g).mu = "free"
  /\ g \notin dTodo' \/ Ig(g)'.mu = "dispatch"
RetryVisits(g) ==
  /\ rPc = "scan" /\ g \in rTodo /\ Ig(g).mu = "free"
  /\ g \notin rTodo' \/ Ig(g)'.mu = "retry"

\* group g's data is left as it was
SameData(g) ==
  /\ cache'[g] = cache[g]
  /\ cache[g] # 0 => /\ Ig(g)'.items = Ig(g).items
                     /\ Ig(g)'.attempts = Ig(g).attempts
                     /\ Ig(g)'.lastSent = Ig(g).lastSent

\* ---------------------------------------------------------------- C1
\* C1 as stated: in every reachable state, under every configuration, the attempt
\* count of every stored item is at most MaxRetry.
C1_AttemptsAtMostMaxRetry ==
  \A g \in Groups : \A k \in ItemsOf(g) : AttemptsOf(g, k) <= cfg.MaxRetry

\* C1 amended: the attempt count of every stored item is at most
\* max(MaxRetry, 1): the dispatch loop's first dispatch raises it to 1 whatever
\* MaxRetry is, and the retry loop raises it only while it is below MaxRetry.
C1_AttemptsAtMostMaxRetryOrOne ==
  \A g \in Groups : \A k \in ItemsOf(g) : AttemptsOf(g, k) <= MaxOf(cfg.MaxRetry, 1)

\* an item retried up to a ceiling of 2
C1_Witness ==
  \E g \in Groups : \E k \in ItemsOf(g) : cfg.MaxRetry = 2 /\ AttemptsOf(g, k) = 2

\* ---------------------------------------------------------------- C2
\* C2: when the dispatch loop visits a group never dispatched (lastSent 0, no
\* attempts counted) that holds n >= BatchSize items, it cuts one batch of
\* exactly BatchSize of them, their attempts become 1, and the other
\* n - BatchSize stay stored with attempts 0.
C2_FullBatchCut ==
  [][\A g \in Groups :
       (/\ DispatchVisits(g)
        /\ LastSentOf(g) = 0 /\ UnsentOf(g) = ItemsOf(g)
        /\ Cardinality(ItemsOf(g)) >= cfg.BatchSize)
       => /\ Cardinality(NewTasks) = 1
          /\ \E batch \in CutBy("dispatch", g) :
               /\ batch \subseteq ItemsOf(g)
               /\ Cardinality(batch) = cfg.BatchSize
               /\ \A k \in batch : AttemptsOf(g, k)' = 1
               /\ \A k \in ItemsOf(g) \ batch : k \in ItemsOf(g)' /\ AttemptsOf(g, k)' = 0
          /\ ItemsOf(g)' = ItemsOf(g)]_vars

\* a first batch of BatchSize items in flight, another item of the group left unsent
C2_Witness ==
  \E g \in Groups : \E task \in BagToSet(tasks) :
    /\ task.kind = "dispatch" /\ task.group = g
    /\ Cardinality(task.batch) = cfg.BatchSize
    /\ \A k \in task.batch : AttemptsOf(g, k) = 1
    /\ UnsentOf(g) # {} /\ ItemsOf(g) = UnsentOf(g) \cup task.batch

\* ---------------------------------------------------------------- C3
\* C3: when the dispatch loop visits a group with an unsent item whose lastSent is
\* 0 or lies more than FlushAfter before the tick's now, it cuts a non-empty
\* batch of unsent items, however few are unsent; when fewer than BatchSize are
\* unsent and lastSent is neither 0 nor that old, it cuts nothing and leaves the
\* group as it was.
C3_FlushOnTimeOrSize ==
  [][\A g \in Groups :
       DispatchVisits(g) =>
         LET timeUp == LastSentOf(g) = 0 \/ dNow - LastSentOf(g) > cfg.FlushAfter
             full == Cardinality(UnsentOf(g)) >= cfg.BatchSize
         IN /\ (UnsentOf(g) # {} /\ timeUp)
                 => \E batch \in CutBy("dispatch", g) : batch # {} /\ batch \subseteq UnsentOf(g)
            /\ (~full /\ ~timeUp)
                 => CutBy("dispatch", g) = {} /\ SameData(g) /\ tasks' = tasks]_vars

\* a batch of fewer than BatchSize items in flight
C3_Witness ==
  \E task \in BagToSet(tasks) :
    task.kind = "dispatch" /\ task.batch # {} /\ Cardinality(task.batch) < cfg.BatchSize

\* ---------------------------------------------------------------- C4
\* C4: Ack(group, keys) leaves none of the keys stored in the group; a key that is
\* not stored in a group is in no batch a step cuts for that group, and becomes
\* stored again only by an Add of that key to that group.
C4_AckedKeyInNoBatch ==
  [][/\ \A t \in Threads, g \in Groups, K \in SUBSET Keys :
          Ack(t, g, K) => K \cap ItemsOf(g)' = {}
     /\ \A g \in Groups, k \in Keys :
          k \notin ItemsOf(g) =>
            /\ \A task \in NewTasks : task.group = g => k \notin task.batch
            /\ k \in ItemsOf(g)' => \E t \in Threads : Add(t, g, k)]_vars

\* both keys of a group went out in one batch; one has been acknowledged since,
\* and the retry batch cut after that holds the other key alone
C4_Witness ==
  \E g \in Groups : \E t1, t2 \in BagToSet(tasks) :
    /\ cfg.MaxRetry = 2
    /\ t1.group = g /\ t1.kind = "dispatch" /\ t1.batch = Keys
    /\ t2.group = g /\ t2.kind = "retry" /\ t2.batch # {} /\ t2.batch # Keys
    /\ ItemsOf(g) = t2.batch

\* ---------------------------------------------------------------- C5
\* C5: a retry batch is cut for a group only by the retry loop's visit of it, and
\* only when the group has an item, lastSent is not 0 and at least RetryAfter has
\* passed from lastSent to the tick's now; a visit in any other state leaves the
\* group's attempts and lastSent as they were and submits nothing.
C5_RetryOnlyWhenDue ==
  [][\A g \in Groups :
       LET due == /\ ItemsOf(g) # {}
                  /\ LastSentOf(g) # 0
                  /\ rNow - LastSentOf(g) >= cfg.RetryAfter
       IN /\ CutBy("retry", g) # {} => RetryVisits(g) /\ due
          /\ (RetryVisits(g) /\ ~due) => SameData(g) /\ tasks' = tasks]_vars

\* a retry batch in flight
C5_Witness ==
  \E task \in BagToSet(tasks) : task.kind = "retry" /\ task.batch # {}

\* ---------------------------------------------------------------- C6
\* C6: whatever the executor, a callback that calls Ack on its own group gets
\* the group's lock and returns: no task is ever left waiting for the lock in Ack.
C6_CallbackAckCompletes ==
  \A task \in BagToSet(tasks) : task.pc # "lockWait"

\* ---------------------------------------------------------------- C7
\* a task that had been submitted is gone from the executor after this step
EndedTasks ==
  {task \in BagToSet(tasks) : task.pc = "submitted" /\ CopiesIn(task, tasks') < CopiesIn(task, tasks)}

\* C7: where the callback fails whenever it is called (it panics, or OnDispatch is
\* nil), each run of a task ends the task and nothing else: the process lives
\* on, no group's items, attempts or lastSent change, a loop that ran the task
\* inside Submit unlocks the group and goes on with its scan, and the other
\* loop stays where it was.
C7_CallbackPanicIsolated ==
  [][(/\ cfg.Logger = "fn" /\ cfg.OnDispatch \in {"panics", "nil"}
      /\ EndedTasks # {} \/ crashed' # crashed)
     => /\ ~crashed'
        /\ \A g \in Groups : SameData(g)
        /\ \A task \in EndedTasks :
             /\ task.runner = "pool" => UNCHANGED <<dPc, dTodo, dNow, rPc, rTodo, rNow>>
             /\ task.runner = "dispatch" =>
                  /\ dPc' \in {"idle", "scan"} /\ task.group \notin dTodo'
                  /\ Ig(task.group)'.mu = "free"
                  /\ UNCHANGED <<rPc, rTodo, rNow>>
             /\ task.runner = "retry" =>
                  /\ rPc' \in {"idle", "scan"} /\ task.group \notin rTodo'
                  /\ Ig(task.group)'.mu = "free"
                  /\ UNCHANGED <<dPc, dTodo, dNow>>]_vars

\* the callback has failed on every batch so far, and still one group has had a
\* first batch and a retry batch, another group a batch too, and all have run
C7_Witness ==
  /\ cfg.Logger = "fn" /\ cfg.OnDispatch \in {"panics", "nil"}
  /\ ~crashed /\ tasks = EmptyBag
  /\ \E g, h \in Groups :
       /\ g # h
       /\ \E k \in ItemsOf(g) : AttemptsOf(g, k) = 2
       /\ \E k \in ItemsOf(h) : AttemptsOf(h, k) >= 1

\* ---------------------------------------------------------------- C8
\* C8: an engine configured without a Logger keeps running: no task panics out.
C8_RunsWithoutLogger ==
  cfg.Logger = "nil" => ~crashed

\* ---------------------------------------------------------------- C9
\* the item of group g has been handed to the callback: it was put in a batch and
\* every task submitted for the group has run, in a process that is alive
Handed(g) ==
  /\ ~crashed
  /\ \E k \in ItemsOf(g) : AttemptsOf(g, k) >= 1
  /\ \A task \in BagToSet(tasks) : task.group # g

\* C9: after concurrent Adds of one item to each group and then Start, with no
\* Ack and every goroutine scheduled, every item is stored and is in the end
\* handed to the callback.
C9_AllItemsDispatched ==
  <>(\A t \in Threads : ItemsOf(HomeGroup(t)) # {} /\ Handed(HomeGroup(t)))

\* ---------------------------------------------------------------- C10
\* C10: whatever the interleaving of the callers, a group never has more than the
\* one record the store holds for it, and the write of every Add lands in that
\* record: after it the store's record for the group holds the item under its key.
C10_OneRecordPerGroup ==
  [][/\ \A g \in Groups : Len(recs'[g]) <= 1 /\ cache'[g] = Len(recs'[g])
     /\ \A t \in Threads, g \in Groups, k \in Keys :
          (/\ pcT[t] = "addLock" /\ pcT'[t] = "idle"
           /\ argT[t].ig[1] = g /\ argT[t].key = k)
          => k \in ItemsOf(g)' /\ Ig(g)'.items[k] = ItemOf(t, k)]_vars

\* two callers are in Add for the same group at once, the group new and empty;
\* both hold the group's one record
C10_Witness ==
  /\ pcT["t1"] = "addLock" /\ pcT["t2"] = "addLock"
  /\ argT["t1"].ig = argT["t2"].ig
  /\ argT["t1"].key # argT["t2"].key
  /\ \E g \in Groups : argT["t1"].ig = <<g, cache[g]>> /\ ItemsOf(g) = {}

\* ---------------------------------------------------------------- C11
\* C11: Ack raises no failure and stores no record; an Ack none of whose keys is
\* stored in the group (keys acknowledged before, keys never added, a group
\* without a record) leaves every record as it was; and the record an Ack leaves
\* is one that the same Ack again would leave unchanged.
C11_AckOfAbsentKeysIsNoOp ==
  [][\A t \in Threads, g \in Groups, K \in SUBSET Keys :
       Ack(t, g, K) =>
         /\ ~crashed' /\ cache' = cache
         /\ K \cap ItemsOf(g) = {} => recs' = recs
         /\ cache[g] # 0 => DeleteKeys(Ig(g)', K) = Ig(g)'
         /\ UNCHANGED <<cfg, started, stopped, clock, pcT, argT,
                        dPc, dNow, dTodo, rPc, rNow, rTodo, tasks>>]_vars

\* with the loops running, two calls have been made and still no group has a
\* record: both were Acks for a group that is not known
C11_Witness ==
  /\ started /\ opsLeft = MaxOps - 2
  /\ \A g \in Groups : cache[g] = 0

\* ---------------------------------------------------------------- C12
\* C12: the first step of Add(item) changes nothing but to store an empty record
\* for a group that has none; its second step changes items[item.Key()] of the
\* record of item.Group() and nothing else: every attempt count (that of the
\* key too, so a dispatched key that is overwritten does not become unsent), the
\* other items, lastSent, and every other group's record stay as they were.
C12_AddChangesOnlyItsItem ==
  [][\A t \in Threads, g \in Groups, k \in Keys :
       /\ (pcT[t] = "idle" /\ pcT'[t] = "addLock" /\ argT'[t].ig[1] = g)
            => /\ \A h \in Groups \ {g} : cache'[h] = cache[h] /\ recs'[h] = recs[h]
               /\ IF cache[g] # 0
                    THEN cache' = cache /\ recs' = recs
                    ELSE cache'[g] # 0 /\ Ig(g)' = NewItemGroup
       /\ (pcT[t] = "addLock" /\ pcT'[t] = "idle" /\ argT[t].ig[1] = g /\ argT[t].key = k)
            => /\ cache' = cache
               /\ \A h \in Groups \ {g} : recs'[h] = recs[h]
               /\ Ig(g)'.attempts = Ig(g).attempts
               /\ Ig(g)'.lastSent = Ig(g).lastSent
               /\ ItemsOf(g)' = ItemsOf(g) \cup {k}
               /\ Ig(g)'.items[k] = ItemOf(t, k)
               /\ \A x \in ItemsOf(g) \ {k} : Ig(g)'.items[x] = Ig(g).items[x]
               /\ k \in ItemsOf(g) => (k \in UnsentOf(g)' <=> k \in UnsentOf(g))]_vars

\* a caller is in Add, at the write, for a key that the other caller has stored
\* and that has been dispatched since
C12_Witness ==
  \E g \in Groups, k \in Keys :
    /\ pcT["t2"] = "addLock" /\ argT["t2"].ig = <<g, cache[g]>> /\ argT["t2"].key = k
    /\ k \in ItemsOf(g) /\ Ig(g).items[k] = ItemOf("t1", k)
    /\ AttemptsOf(g, k) >= 1

\* ---------------------------------------------------------------- C13
\* C13: after Stop both loops terminate: from any state in which Stop has been
\* called and both loops were started, a state is reached in which the dispatch
\* loop and the retry loop have both returned.
C13_LoopsTerminateAfterStop ==
  (stopped /\ started) ~> (dPc = "exited" /\ rPc = "exited")

\* ---------------------------------------------------------------- C14
\* key k of group g has been in a batch whose task has run to the callback, in
\* a process that is alive
HandedKey(g, k) ==
  /\ ~crashed
  /\ k \in ItemsOf(g) /\ AttemptsOf(g, k) >= 1
  /\ \A task \in BagToSet(tasks) : ~(task.group = g /\ k \in task.batch)

\* C14: with the engine running, the loops ticking and nothing acknowledged,
\* every item that is stored is in the end in a batch that has been handed to
\* the callback, whatever else is added to its group meanwhile.
C14_AtLeastOnce ==
  \A g \in Groups, k \in Keys : (k \in ItemsOf(g)) ~> HandedKey(g, k)

\* ---------------------------------------------------------------- C15
\* C15: a key that the dispatch loop puts in a batch is stored with attempt
\* count 0, and in the very step that submits the batch its count becomes 1 and
\* lastSent the time of the cut; from then on, as long as the key stays stored,
\* its count stays at 1 or more, so that, whether its task has run or not, no
\* later cut of the dispatch loop holds it.
C15_OneDispatchBatchPerItem ==
  [][\A g \in Groups, k \in Keys :
       /\ (\E batch \in CutBy("dispatch", g) : k \in batch)
            => /\ k \in ItemsOf(g) /\ AttemptsOf(g, k) = 0
               /\ AttemptsOf(g, k)' = 1
               /\ LastSentOf(g)' = clock /\ LastSentOf(g)' # 0
       /\ (k \in ItemsOf(g) /\ AttemptsOf(g, k) >= 1 /\ k \in ItemsOf(g)')
            => AttemptsOf(g, k)' >= 1]_vars

\* two batches of the dispatch loop for one group are in flight, neither
\* callback has run yet, and they share no key
C15_Witness ==
  \E g \in Groups : \E t1, t2 \in BagToSet(tasks) :
    /\ t1 # t2
    /\ t1.group = g /\ t1.kind = "dispatch" /\ t1.pc = "submitted"
    /\ t2.group = g /\ t2.kind = "dispatch" /\ t2.pc = "submitted"
    /\ t1.batch \cap t2.batch = {}
    /\ \A k \in t1.batch \cup t2.batch : AttemptsOf(g, k) = 1

\* ---------------------------------------------------------------- C16
\* C16: in every reachable state, in every group's record, every key that has
\* an entry in attempts has an entry in items.
C16_AttemptsWithinItems ==
  \A g \in Groups : \A i \in 1..Len(recs[g]) :
    DOMAIN recs[g][i].attempts \subseteq DOMAIN recs[g][i].items

\* a key that went out in a batch still in flight has been acknowledged and is
\* gone from both maps, while another key of the group is stored with its count
C16_Witness ==
  \E g \in Groups : \E task \in BagToSet(tasks) : \E k \in task.batch :
    /\ task.group = g
    /\ k \notin ItemsOf(g) /\ k \notin DOMAIN Ig(g).attempts
    /\ \E x \in ItemsOf(g) : x \in DOMAIN Ig(g).attempts /\ AttemptsOf(g, x) >= 1

\* ---------------------------------------------------------------- C17
\* C17: across any step that leaves a key stored, its attempt count does not go
\* down and goes up by 1 exactly when the step cuts a batch that holds the key,
\* and otherwise stays; and the count of a stored key is never above MaxRetry + 1.
C17_AttemptsMonotoneAndBounded ==
  [][\A g \in Groups, k \in Keys :
       /\ (k \in ItemsOf(g) /\ k \in ItemsOf(g)')
            => /\ AttemptsOf(g, k)' >= AttemptsOf(g, k)
               /\ AttemptsOf(g, k)' <= AttemptsOf(g, k) + 1
               /\ AttemptsOf(g, k)' = AttemptsOf(g, k) + 1
                    <=> \E task \in NewTasks : task.group = g /\ k \in task.batch
       /\ k \in ItemsOf(g)' => AttemptsOf(g, k)' <= cfg.MaxRetry + 1]_vars

\* with MaxRetry 0 an item has been dispatched, its task has run, and its count
\* stands at MaxRetry + 1
C17_Witness ==
  \E g \in Groups : \E k \in ItemsOf(g) :
    /\ cfg.MaxRetry = 0 /\ AttemptsOf(g, k) = cfg.MaxRetry + 1
    /\ tasks = EmptyBag /\ clock > LastSentOf(g)

\* ---------------------------------------------------------------- C18
\* C18: when the retry loop visits a group that has an item, a lastSent that is
\* not 0 and RetryAfter passed since then, then with R the stored keys whose
\* attempt count is below MaxRetry: if R is not empty, exactly one task is
\* submitted, its batch is R whatever BatchSize is, every count in R goes up by
\* 1 and lastSent becomes the tick's now; if R is empty nothing is submitted and
\* the group is left as it was; the counts of the keys outside R never change.
C18_RetryBatchIsAllBelowMaxRetry ==
  [][\A g \in Groups :
       (/\ RetryVisits(g)
        /\ ItemsOf(g) # {} /\ LastSentOf(g) # 0
        /\ rNow - LastSentOf(g) >= cfg.RetryAfter)
       => LET R == {k \in ItemsOf(g) : AttemptsOf(g, k) < cfg.MaxRetry}
          IN /\ ItemsOf(g)' = ItemsOf(g)
             /\ \A k \in ItemsOf(g) \ R : AttemptsOf(g, k)' = AttemptsOf(g, k)
             /\ R # {} => /\ CutBy("retry", g) = {R} /\ Cardinality(NewTasks) = 1
                          /\ \A k \in R : AttemptsOf(g, k)' = AttemptsOf(g, k) + 1
                          /\ LastSentOf(g)' = rNow
             /\ R = {} => NewTasks = {} /\ SameData(g)]_vars

\* a retry batch of two items in flight where BatchSize is 1
C18_Witness ==
  \E task \in BagToSet(tasks) :
    /\ task.kind = "retry" /\ cfg.BatchSize = 1 /\ Cardinality(task.batch) = 2
    /\ \A k \in task.batch : k \in ItemsOf(task.group) /\ AttemptsOf(task.group, k) >= 1

\* ---------------------------------------------------------------- C19
\* C19: a key leaves a group's items only in a step that is an Ack of it, by a
\* caller or by the callback of a task that held it; a group's record, once
\* stored, stays the group's record; and a stored key that has been dispatched
\* and whose count has reached MaxRetry is in no batch that is cut.
C19_ItemsLeaveOnlyByAck ==
  [][\A g \in Groups :
       /\ cache[g] # 0 => cache'[g] = cache[g]
       /\ \A k \in ItemsOf(g) :
            /\ k \notin ItemsOf(g)'
                 => \/ \E t \in Threads, K \in SUBSET Keys : k \in K /\ Ack(t, g, K)
                    \/ \E task \in EndedTasks : task.group = g /\ k \in task.batch
            /\ (AttemptsOf(g, k) >= 1 /\ AttemptsOf(g, k) >= cfg.MaxRetry)
                 => \A task \in NewTasks : ~(task.group = g /\ k \in task.batch)]_vars

\* an item has used up its one attempt, its task has run without an Ack, and
\* the retry loop, in a tick taken when the retry was due, has been to its group
\* and has left it stored
C19_Witness ==
  \E g, h \in Groups : \E k \in ItemsOf(g) :
    /\ cfg.MaxRetry = 1 /\ AttemptsOf(g, k) = 1
    /\ tasks = EmptyBag
    /\ rPc = "scan" /\ rNow - LastSentOf(g) >= cfg.RetryAfter
    /\ g \notin rTodo /\ h \in rTodo

\* ---------------------------------------------------------------- C20
\* C20 as stated: every batch the dispatch loop cuts holds at most BatchSize
\* keys, all with attempt count 0, and every batch the retry loop cuts holds
\* only keys with attempt count 1 or more.
C20_FirstDispatchByDispatchLoop ==
  [][\A g \in Groups :
       /\ \A batch \in CutBy("dispatch", g) :
            batch \subseteq UnsentOf(g) /\ Cardinality(batch) <= cfg.BatchSize
       /\ \A batch \in CutBy("retry", g) :
            \A k \in batch : AttemptsOf(g, k) >= 1]_vars

\* C20 amended: every batch the dispatch loop cuts holds at most BatchSize keys,
\* all with attempt count 0; the retry loop cuts batches only for groups that
\* have been dispatched before (lastSent not 0), and where MaxRetry is 1 or more
\* its batch holds every key of the group with attempt count 0 along with the
\* keys to retry, so that such a key has its first dispatch from the retry loop;
\* where MaxRetry is 0 the retry loop cuts nothing.
C20_RetryTakesUnsentToo ==
  [][\A g \in Groups :
       /\ \A batch \in CutBy("dispatch", g) :
            batch \subseteq UnsentOf(g) /\ Cardinality(batch) <= cfg.BatchSize
       /\ \A batch \in CutBy("retry", g) :
            /\ LastSentOf(g) # 0 /\ cfg.MaxRetry >= 1
            /\ UnsentOf(g) \subseteq batch
            /\ \A k \in batch \cap UnsentOf(g) : AttemptsOf(g, k)' = 1]_vars

\* with BatchSize 1, a retry batch of two keys is in flight, and one of them has
\* been in no other batch: the callers have made two calls, its count is 1
C20_Witness ==
  \E task \in BagToSet(tasks) : \E k \in task.batch :
    /\ task.kind = "retry" /\ cfg.BatchSize = 1 /\ Cardinality(task.batch) = 2
    /\ opsLeft >= MaxOps - 2
    /\ k \in ItemsOf(task.group) /\ AttemptsOf(task.group, k) = 1
====
